---- MODULE Spec2Model ----
(***************************************************************************)
(* A model of tsunami_ip_utils: the similarity index E between sensitivity *)
(* vectors, its decomposition into nuclide and nuclide-reaction            *)
(* contributions, and the readers of uncertainty contributions.            *)
(*                                                                         *)
(* Numbers.  Sensitivities, standard deviations and contributions are      *)
(* integers.  A square root is never evaluated: a quantity sgn*sqrt(rad)   *)
(* is the record [sgn, rad], a variance is the fraction [num, den], and a  *)
(* norm is kept as its square.  All comparisons are done by cross          *)
(* multiplication, so every result is exact.                               *)
(***************************************************************************)
EXTENDS Integers, Sequences, FiniteSets, TLC

VARIABLES
    table,        \* rows of the tabulated reaction-wise output, or NoTable
    filenames,    \* the list of SDF paths given to read_uncertainty_contributions_sdf
    pc,           \* position of the read_uncertainty_contributions_sdf call
    inputFile,    \* TRUE while the temporary input file exists on disk
    outputFile,   \* "absent", "text" or "binary": the file <input_filename>.out
    solverRuns,   \* number of times the solver process was spawned
    exitCode,     \* exit code of the solver process, -1 before it has run
    sdfResult,    \* what read_uncertainty_contributions_sdf returned or raised
    outResult,    \* what read_uncertainty_contributions_out returned or raised
    application,  \* sensitivity profiles of the application case, in file order
    experiment,   \* sensitivity profiles of the experiment case, in file order
    application_file,    \* path of the application SDF file
    experiment_file,     \* path of the experiment SDF file
    nextVar,      \* number of uncertainties.Variable objects created so far
    call,         \* the arguments of the call made to the similarity index engine
    E,            \* what calculate_E_from_sensitivity_vecs returned or raised
    appReader,    \* the RegionIntegratedSdfReader of the application
    expReader,    \* the RegionIntegratedSdfReader of the experiment
    contributions, \* what get_nuclide_and_reaction_wise_E_contributions returned or raised
    pair,         \* number of the (experiment, application) pair being processed
    sdfFile,      \* the content of a sensitivity data file on disk
    sdfReader,    \* the outcome of SdfReader(filename)
    regionReader, \* the outcome of RegionIntegratedSdfReader(filename)
    legacyReader, \* the outcome of SdfReader(filename) of tsunami_ip_utils.py
    builderReader,      \* a RegionIntegratedSdfReader of readers.py
    builderProfiles,    \* what its get_sensitivity_profiles returned
    sensitivity_vector, \* what create_sensitivity_vector made of them
    h5File,       \* the rows of an HDF5 sensitivity data file
    h5Data        \* what read_region_integrated_h5_sdf returned or raised

uncVars == <<table, filenames, pc, inputFile, outputFile, solverRuns, exitCode,
             sdfResult, outResult>>

engVars == <<application, experiment, application_file, experiment_file,
             nextVar, call, E>>

decVars == <<appReader, expReader, contributions, pair>>

parVars == <<sdfFile, sdfReader, regionReader, legacyReader>>

vecVars == <<builderReader, builderProfiles, sensitivity_vector>>

h5Vars == <<h5File, h5Data>>

vars == <<uncVars, engVars, decVars, parVars, vecVars, h5Vars>>

----------------------------------------------------------------------------
(* Bounds of the model *)

MaxRows == 2

MaxFiles == 1

MaxProfiles == 2

MaxEntries == 2

MaxPairs == 2

MaxBlocks == 2

\* profiles of a file handed to the vector builder
MaxListed == 3

\* rows of an HDF5 sensitivity data file
MaxH5Rows == 2

\* keys of the nuclide totals and of the nested dictionaries
Isotopes == {"u-235", "u-238"}

Contribs == {-4, -3, 0, 3, 4}

Sigmas == {0, 1}

Sensitivities == {-1, 0, 2}

NormSqs == {0, 25}

Files == {"a.sdf", "b.sdf"}

Reactions == {"fission", "capture"}

DecProfiles == {<<[n |-> -1, s |-> 1]>>, <<[n |-> 2, s |-> 1]>>}

\* the profiles of the experiment files
ExpProfiles == {<<[n |-> 2, s |-> 1]>>}

Modes == {"automatic", "manual"}

\* values of the uncertainties argument: the two documented ones and another
ModeStrings == Modes \cup {"montecarlo"}

NoTable == <<>>

None == [status |-> "none"]

----------------------------------------------------------------------------
(* Arithmetic helpers *)

Abs(x) == IF x < 0 THEN -x ELSE x

Sign(x) == IF x < 0 THEN -1 ELSE IF x = 0 THEN 0 ELSE 1

RECURSIVE SumSeq(_)
SumSeq(s) == IF s = <<>> THEN 0 ELSE Head(s) + SumSeq(Tail(s))

RECURSIVE GCD(_, _)
GCD(a, b) == IF b = 0 THEN a ELSE GCD(b, a % b)

\* the fraction num/den in lowest terms (num >= 0, den > 0)
Frac(num, den) ==
    IF num = 0 THEN [num |-> 0, den |-> 1]
    ELSE LET g == GCD(num, den) IN [num |-> num \div g, den |-> den \div g]

\* x**0.5 of the uncertainties package for a nominal value x >= 0
Sqrt(x) == [real |-> TRUE, sgn |-> Sign(x), rad |-> x]

\* unary minus of a root
Neg(r) == [real |-> r.real, sgn |-> -r.sgn, rad |-> r.rad]

\* the result of a power that has no real value
NotReal == [real |-> FALSE, sgn |-> 0, rad |-> 0]

----------------------------------------------------------------------------
(* Signed aggregation of reaction-wise contributions into nuclide totals *)

Rows == [isotope : Isotopes, n : Contribs, s : Sigmas]

Tables == UNION {[1..k -> Rows] : k \in 1..MaxRows}

\* ufloat(0,0), then -= c**2 for c < 0 and += c**2 otherwise, over the rows
\* of one isotope in file order
RECURSIVE RunningSum(_, _)
RunningSum(rows, isotope) ==
    IF rows = <<>> THEN 0
    ELSE LET r == rows[Len(rows)]
             rest == RunningSum(SubSeq(rows, 1, Len(rows) - 1), isotope)
         IN IF r.isotope # isotope THEN rest
            ELSE IF r.n < 0 THEN rest - r.n * r.n
            ELSE rest + r.n * r.n

\* variance of the running sum, linear propagation: d(c**2)/dc = 2c
RECURSIVE RunningVar(_, _)
RunningVar(rows, isotope) ==
    IF rows = <<>> THEN 0
    ELSE LET r == rows[Len(rows)]
             rest == RunningVar(SubSeq(rows, 1, Len(rows) - 1), isotope)
         IN IF r.isotope # isotope THEN rest
            ELSE rest + 4 * r.n * r.n * r.s * r.s

\* the dictionary keys of isotope_totals, in insertion order
RECURSIVE IsotopeKeys(_)
IsotopeKeys(rows) ==
    IF rows = <<>> THEN <<>>
    ELSE LET init == IsotopeKeys(SubSeq(rows, 1, Len(rows) - 1))
             iso == rows[Len(rows)].isotope
         IN IF \E i \in 1..Len(init) : init[i] = iso THEN init
            ELSE Append(init, iso)

\* the variance of total**0.5: var(total) / (4 |total|); not a number when
\* the derivative of the power is taken at 0 and some row is uncertain
RootVar(rows, isotope) ==
    LET t == RunningSum(rows, isotope)
        v == RunningVar(rows, isotope)
        exact == \A i \in 1..Len(rows) : rows[i].isotope = isotope => rows[i].s = 0
    IN IF t # 0 THEN [nan |-> FALSE, var |-> Frac(v, 4 * Abs(t))]
       ELSE [nan |-> ~exact, var |-> Frac(0, 1)]

\* read_uncertainty_contributions_sdf:
\*   total**0.5 if total > 0 else -(-total)**0.5
TotalSdf(total) == IF total > 0 THEN Sqrt(total) ELSE Neg(Sqrt(-total))

\* read_uncertainty_contributions_out: total**0.5; a negative total has no
\* real root (pow raises ValueError, or yields nan in older releases)
TotalOut(total) == IF total >= 0 THEN Sqrt(total) ELSE NotReal

IsotopeTotalsSdf(rows) ==
    LET keys == IsotopeKeys(rows)
    IN [k \in 1..Len(keys) |->
          [isotope |-> keys[k],
           contribution |-> TotalSdf(RunningSum(rows, keys[k])),
           variance |-> RootVar(rows, keys[k])]]

IsotopeTotalsOut(rows) ==
    LET keys == IsotopeKeys(rows)
    IN [k \in 1..Len(keys) |->
          [isotope |-> keys[k],
           contribution |-> TotalOut(RunningSum(rows, keys[k])),
           variance |-> RootVar(rows, keys[k])]]

\* isotope_reaction: one dictionary per parsed data line
IsotopeReaction(rows) ==
    [k \in 1..Len(rows) |->
        [isotope |-> rows[k].isotope, contribution |-> rows[k].n, s |-> rows[k].s]]

----------------------------------------------------------------------------
(* read_uncertainty_contributions_out(filename) *)

ReadUncertaintyContributionsOut ==
    /\ outResult = None
    /\ \/ /\ table = NoTable          \* parseString finds no table
          /\ outResult' = [status |-> "ParseException"]
       \/ /\ table # NoTable
          /\ \A k \in 1..Len(IsotopeTotalsOut(table)) :
                 IsotopeTotalsOut(table)[k].contribution.real
          /\ outResult' = [status |-> "returned",
                           isotope_totals |-> IsotopeTotalsOut(table),
                           isotope_reaction |-> IsotopeReaction(table)]
       \/ /\ table # NoTable
          /\ \E k \in 1..Len(IsotopeTotalsOut(table)) :
                 IsotopeTotalsOut(table)[k].contribution.real = FALSE
          /\ \/ outResult' = [status |-> "ValueError"]
             \/ outResult' = [status |-> "returned",
                              isotope_totals |-> IsotopeTotalsOut(table),
                              isotope_reaction |-> IsotopeReaction(table)]
    /\ UNCHANGED <<table, filenames, pc, inputFile, outputFile, solverRuns,
                   exitCode, sdfResult>>
    /\ UNCHANGED <<engVars, decVars, parVars, vecVars, h5Vars>>

----------------------------------------------------------------------------
(* read_uncertainty_contributions_sdf(filenames) *)

\* Template the input, write it to a NamedTemporaryFile(delete=False).
\* filenames[0] of an empty list raises before any file is created.
SdfWriteInput ==
    /\ pc = "idle"
    /\ IF filenames = <<>>
       THEN /\ pc' = "raised"
            /\ sdfResult' = [status |-> "IndexError"]
            /\ UNCHANGED inputFile
       ELSE /\ pc' = "spawn"
            /\ inputFile' = TRUE
            /\ UNCHANGED sdfResult
    /\ UNCHANGED <<table, filenames, outputFile, solverRuns, exitCode, outResult>>
    /\ UNCHANGED <<engVars, decVars, parVars, vecVars, h5Vars>>

\* subprocess.Popen(['scalerte', input_filename]); process.wait().
\* The executable may be missing; otherwise the solver exits with some code
\* and has or has not written <input_filename>.out.  The return value of
\* wait() is discarded.
SdfRunSolver ==
    /\ pc = "spawn"
    /\ \/ /\ pc' = "raised"
          /\ sdfResult' = [status |-> "FileNotFoundError"]
          /\ UNCHANGED <<outputFile, solverRuns, exitCode>>
       \/ \E code \in {0, 1}, out \in {"absent", "text", "binary"} :
             /\ solverRuns' = solverRuns + 1
             /\ exitCode' = code
             /\ outputFile' = out
             /\ pc' = "process"
             /\ UNCHANGED sdfResult
    /\ UNCHANGED <<table, filenames, inputFile, outResult>>
    /\ UNCHANGED <<engVars, decVars, parVars, vecVars, h5Vars>>

\* open(f"{input_filename}.out").read(), searchString, the nuclide totals,
\* os.remove of both files, return.
SdfProcessOutput ==
    /\ pc = "process"
    /\ \/ /\ outputFile = "absent"
          /\ pc' = "raised"
          /\ sdfResult' = [status |-> "FileNotFoundError"]
          /\ UNCHANGED <<inputFile, outputFile>>
       \/ /\ outputFile = "binary"
          /\ pc' = "raised"
          /\ sdfResult' = [status |-> "UnicodeDecodeError"]
          /\ UNCHANGED <<inputFile, outputFile>>
       \/ /\ outputFile = "text"
          /\ pc' = "returned"
          /\ LET parsed_data == IF table = NoTable THEN <<>> ELSE <<table>>
             IN sdfResult' =
                  [status |-> "returned",
                   isotope_totals |->
                      [i \in 1..Len(parsed_data) |-> IsotopeTotalsSdf(parsed_data[i])],
                   isotope_reaction |->
                      [i \in 1..Len(parsed_data) |-> IsotopeReaction(parsed_data[i])]]
          /\ inputFile' = FALSE
          /\ outputFile' = "absent"
    /\ UNCHANGED <<table, filenames, solverRuns, exitCode, outResult>>
    /\ UNCHANGED <<engVars, decVars, parVars, vecVars, h5Vars>>

----------------------------------------------------------------------------
(* ufloat vectors.  A component is [n, s, id]: nominal value, standard     *)
(* deviation and the identity of its uncertainties.Variable; two           *)
(* quantities are correlated only through a Variable both depend on.       *)

RECURSIVE Concat(_)
Concat(seqs) == IF seqs = <<>> THEN <<>> ELSE Head(seqs) \o Concat(Tail(seqs))

\* unumpy.uarray(nominal_values, std_devs): one new Variable per component
Uarray(values, base) ==
    [i \in 1..Len(values) |-> [n |-> values[i].n, s |-> values[i].s, id |-> base + i]]

\* unumpy.nominal_values(sdf)
NominalValues(sdf) == [g \in 1..Len(sdf) |-> sdf[g].n]

\* unumpy.std_devs(sdf)
StdDevs(sdf) == [g \in 1..Len(sdf) |-> sdf[g].s]

\* np.concatenate([unumpy.nominal_values(sdf) for sdf in sdfs])
RECURSIVE ConcatNominalValues(_)
ConcatNominalValues(sdfs) ==
    IF sdfs = <<>> THEN <<>>
    ELSE NominalValues(Head(sdfs)) \o ConcatNominalValues(Tail(sdfs))

\* np.concatenate([unumpy.std_devs(sdf) for sdf in sdfs])
RECURSIVE ConcatStdDevs(_)
ConcatStdDevs(sdfs) ==
    IF sdfs = <<>> THEN <<>>
    ELSE StdDevs(Head(sdfs)) \o ConcatStdDevs(Tail(sdfs))

\* unumpy.uarray(senstivities, uncertainties): the two arrays paired
\* position by position, one new Variable per component
UarrayFrom(senstivities, uncertainties, base) ==
    [i \in 1..Len(senstivities) |->
       [n |-> senstivities[i], s |-> uncertainties[i], id |-> base + i]]

\* a variant that concatenates the standard deviations in the reverse of the
\* list order
create_sensitivity_vector_reversed(sdfs, base) ==
    UarrayFrom(ConcatNominalValues(sdfs),
               ConcatStdDevs([p \in 1..Len(sdfs) |-> sdfs[Len(sdfs) + 1 - p]]), base)

\* create_sensitivity_vector(sdfs): the standard deviations of the profiles
\* concatenated in list order, their nominal values concatenated in list
\* order, and the two arrays made into new Variables
create_sensitivity_vector(sdfs, base) ==
    UarrayFrom(ConcatNominalValues(sdfs), ConcatStdDevs(sdfs), base)

\* a variant that sums the absolute values instead of the squares
NormSqUnsquared(v) == SumSeq([i \in 1..Len(v) |-> Abs(v[i].n)])

\* np.sum(unumpy.nominal_values(vector)**2): the square of the norm
NormSq(v) == SumSeq([i \in 1..Len(v) |-> v[i].n * v[i].n])

\* nominal value of np.dot(a, b) before the division by the norms
DotN(a, b) == SumSeq([i \in 1..Len(a) |-> a[i].n * b[i].n])

Ids(v) == {v[i].id : i \in 1..Len(v)}

Cube(x) == x * x * x

\* vector_norm**2 of unit_vector_uncertainty_propagation(vector): always
\* computed from the vector passed in
vector_norm_sq(v) == NormSq(v)

\* derivative_matrix[i][j] * vector_norm**3:
\*   -x_i*x_j off the diagonal, vector_norm**2 - x_i**2 on it
derivative_matrix(v, i, j) ==
    IF i = j THEN vector_norm_sq(v) - v[i].n * v[i].n ELSE -(v[i].n * v[j].n)

\* a variant that weights every entry of row i by the variance of component i
unit_vector_uncertainty_own_variance(v, i) ==
    SumSeq([j \in 1..Len(v) |->
              derivative_matrix(v, i, j) * derivative_matrix(v, i, j) * v[i].s * v[i].s])

\* unit_vector_uncertainty_propagation(vector)[i]**2 * vector_norm**6:
\*   np.sum(derivative_matrix**2 * vector_uncertainties**2, axis=1)
unit_vector_uncertainty_propagation(v, i) ==
    SumSeq([j \in 1..Len(v) |->
              derivative_matrix(v, i, j) * derivative_matrix(v, i, j) * v[j].s * v[j].s])

\* vector_norm**6, the denominator of the squared unit-vector uncertainties
\* (numpy divides by a zero norm without raising: the result is nan, and it
\* is never used because every nominal component is 0 then)
ErrDen(v) == IF vector_norm_sq(v) = 0 THEN 1 ELSE Cube(vector_norm_sq(v))

\* a variant without the test for a zero nominal component
dot_product_uncertainty_no_zero_rule(a, na2, va, da, b, nb2, vb, db) ==
    SumSeq([i \in 1..Len(a) |->
              b[i].n * b[i].n * va[i] * na2 * db
              + a[i].n * a[i].n * vb[i] * nb2 * da])

\* a variant that leaves out the relative uncertainty of vect2
dot_product_uncertainty_one_sided(a, na2, va, da, b, nb2, vb, db) ==
    SumSeq([i \in 1..Len(a) |->
              IF a[i].n = 0 \/ b[i].n = 0 THEN 0
              ELSE b[i].n * b[i].n * va[i] * na2 * db])

\* dot_product_uncertainty_propagation(vect1, vect2)**2 for the unit vectors
\*   vect1[i] = a[i].n/sqrt(na2) +/- sqrt(va[i]/da),
\*   vect2[i] = b[i].n/sqrt(nb2) +/- sqrt(vb[i]/db):
\* the term of component i is 0 when either nominal value is 0 and
\*   (n1*n2)**2 * ((s1/n1)**2 + (s2/n2)**2) otherwise.
\* This is the numerator of the sum over the denominator na2*nb2*da*db.
dot_product_uncertainty_propagation(a, na2, va, da, b, nb2, vb, db) ==
    SumSeq([i \in 1..Len(a) |->
              IF a[i].n = 0 \/ b[i].n = 0 THEN 0
              ELSE b[i].n * b[i].n * va[i] * na2 * db
                   + a[i].n * a[i].n * vb[i] * nb2 * da])

NoFile == "None"

NoNorm == -1

\* the outcome of a call that raised
Raised(err) ==
    [status |-> err, sgn |-> 0, sq |-> Frac(0, 1), var |-> Frac(0, 1),
     appIds |-> {}, expIds |-> {}, decorrelated |-> FALSE,
     normSq |-> <<0, 0>>, errNormSq |-> <<0, 0>>]

\* standard deviation of Variable k, a component of a or of b
StdDev(a, b, k) ==
    IF \E i \in 1..Len(a) : a[i].id = k
    THEN a[CHOOSE i \in 1..Len(a) : a[i].id = k].s
    ELSE b[CHOOSE i \in 1..Len(b) : b[i].id = k].s

\* d(v[i]/|v|)/d(Variable k) * |v|**3, as the uncertainties package tracks it
UnitDerivative(v, i, k) ==
    SumSeq([j \in 1..Len(v) |-> IF v[j].id = k THEN derivative_matrix(v, i, j) ELSE 0])

\* (std_dev of the unit-vector component v[i]/|v|)**2 * |v|**6
UnitStdSq(v, i) ==
    LET ks == Ids(v)
        lo == CHOOSE k \in ks : \A m \in ks : k <= m
        hi == CHOOSE k \in ks : \A m \in ks : k >= m
    IN SumSeq([d \in 1..(hi - lo + 1) |->
                 IF lo + d - 1 \in ks
                 THEN UnitDerivative(v, i, lo + d - 1) * UnitDerivative(v, i, lo + d - 1)
                      * StdDev(v, v, lo + d - 1) * StdDev(v, v, lo + d - 1)
                 ELSE 0])

\* d(np.dot(a/|a|, b/|b|))/d(Variable k) * (|a|*|b|)**3: the chain rule
\* through every unit-vector component that depends on Variable k
Gradient(a, b, k) ==
    NormSq(b) * SumSeq([i \in 1..Len(a) |-> b[i].n * UnitDerivative(a, i, k)])
    + NormSq(a) * SumSeq([i \in 1..Len(b) |-> a[i].n * UnitDerivative(b, i, k)])

\* std_dev**2 of np.dot of the two unit vectors * (|a|*|b|)**6 when the
\* unit vectors keep the Variables of a and b
CorrelatedVar(a, b) ==
    LET ks == Ids(a) \cup Ids(b)
        lo == CHOOSE k \in ks : \A m \in ks : k <= m
        hi == CHOOSE k \in ks : \A m \in ks : k >= m
    IN SumSeq([d \in 1..(hi - lo + 1) |->
                 IF lo + d - 1 \in ks
                 THEN Gradient(a, b, lo + d - 1) * Gradient(a, b, lo + d - 1)
                      * StdDev(a, b, lo + d - 1) * StdDev(a, b, lo + d - 1)
                 ELSE 0])

\* the same once both unit vectors are rebuilt as independent Variables
\* ufloat(v.n, v.s): sum of (b_i*s_a_i)**2 + (a_i*s_b_i)**2
DecorrelatedVar(a, b) ==
    SumSeq([i \in 1..Len(a) |->
              b[i].n * b[i].n * UnitStdSq(a, i) * NormSq(b) * NormSq(b)
              + a[i].n * a[i].n * UnitStdSq(b, i) * NormSq(a) * NormSq(a)])

\* a variant that always breaks the correlation
BreakCorrelationAlways(application_filename, experiment_filename) == TRUE

\* a variant with the test inverted
BreakCorrelationInverted(application_filename, experiment_filename) ==
    application_filename = experiment_filename

\* the decision to break the correlation
BreakCorrelation(application_filename, experiment_filename) ==
    application_filename # experiment_filename

\* d(np.dot(a/na, b/nb))/d(Variable k) * na*nb for norms na, nb given as
\* plain numbers
GradientGivenNorms(a, b, k) ==
    SumSeq([i \in 1..Len(a) |-> IF a[i].id = k THEN b[i].n ELSE 0])
    + SumSeq([i \in 1..Len(b) |-> IF b[i].id = k THEN a[i].n ELSE 0])

\* std_dev**2 of np.dot(a/na, b/nb) * (na*nb)**2, Variables of a and b kept
CorrelatedVarGivenNorms(a, b) ==
    LET ks == Ids(a) \cup Ids(b)
        lo == CHOOSE k \in ks : \A m \in ks : k <= m
        hi == CHOOSE k \in ks : \A m \in ks : k >= m
    IN SumSeq([d \in 1..(hi - lo + 1) |->
                 IF lo + d - 1 \in ks
                 THEN GradientGivenNorms(a, b, lo + d - 1)
                      * GradientGivenNorms(a, b, lo + d - 1)
                      * StdDev(a, b, lo + d - 1) * StdDev(a, b, lo + d - 1)
                 ELSE 0])

\* the same for unit vectors rebuilt as independent Variables
DecorrelatedVarGivenNorms(a, b) ==
    SumSeq([i \in 1..Len(a) |->
              b[i].n * b[i].n * a[i].s * a[i].s + a[i].n * a[i].n * b[i].s * b[i].s])

\* a variant of the shape test that accepts a longer second vector
DotAlignedShorterFirst(a, b) == Len(a) <= Len(b)

\* np.dot of two one-dimensional arrays: the shapes must be aligned
DotAligned(a, b) == Len(a) = Len(b)

\* a variant that tests for either norm being left out
norms_not_provided_either(experiment_norm, application_norm) ==
    experiment_norm = NoNorm \/ application_norm = NoNorm

\* norms_not_provided = ( experiment_norm == None ) and ( application_norm == None )
norms_not_provided(experiment_norm, application_norm) ==
    experiment_norm = NoNorm /\ application_norm = NoNorm

\* a variant that raises only when both filenames are missing
filename_not_provided_both(application_filename, experiment_filename) ==
    application_filename = NoFile /\ experiment_filename = NoFile

\* application_filename == None or experiment_filename == None
filename_not_provided(application_filename, experiment_filename) ==
    application_filename = NoFile \/ experiment_filename = NoFile

\* the 'automatic' branch; norms, when given, are plain numbers
AutomaticE(a, b, application_filename, experiment_filename, application_norm, experiment_norm, fresh) ==
    LET not_provided == norms_not_provided(experiment_norm, application_norm)
        na2 == IF not_provided THEN NormSq(a) ELSE application_norm
        nb2 == IF not_provided THEN NormSq(b) ELSE experiment_norm
        brk == BreakCorrelation(application_filename, experiment_filename)
    IN IF na2 = NoNorm \/ nb2 = NoNorm THEN Raised("TypeError")
       ELSE IF na2 = 0 \/ nb2 = 0 THEN Raised("ZeroDivisionError")
       ELSE IF ~DotAligned(a, b) THEN Raised("ValueError")
       ELSE [status |-> "ok",
             sgn |-> Sign(DotN(a, b)),
             sq |-> Frac(DotN(a, b) * DotN(a, b), na2 * nb2),
             var |-> IF not_provided
                     THEN Frac(IF brk THEN DecorrelatedVar(a, b) ELSE CorrelatedVar(a, b),
                               Cube(na2 * nb2))
                     ELSE Frac(IF brk THEN DecorrelatedVarGivenNorms(a, b)
                                      ELSE CorrelatedVarGivenNorms(a, b),
                               na2 * nb2),
             appIds |-> IF brk THEN {fresh + i : i \in 1..Len(a)} ELSE Ids(a),
             expIds |-> IF brk THEN {fresh + Len(a) + i : i \in 1..Len(b)} ELSE Ids(b),
             decorrelated |-> brk,
             normSq |-> <<na2, nb2>>,
             errNormSq |-> <<na2, nb2>>]

\* the 'manual' branch (every value of uncertainties but 'automatic')
ManualE(a, b, application_norm, experiment_norm) ==
    LET not_provided == norms_not_provided(experiment_norm, application_norm)
        na2 == IF not_provided THEN NormSq(a) ELSE application_norm
        nb2 == IF not_provided THEN NormSq(b) ELSE experiment_norm
        va == [i \in 1..Len(a) |-> unit_vector_uncertainty_propagation(a, i)]
        vb == [i \in 1..Len(b) |-> unit_vector_uncertainty_propagation(b, i)]
    IN IF na2 = NoNorm \/ nb2 = NoNorm THEN Raised("TypeError")
       ELSE IF na2 = 0 \/ nb2 = 0 THEN Raised("ZeroDivisionError")
       ELSE IF ~DotAligned(a, b) THEN Raised("ValueError")
       ELSE [status |-> "ok",
             sgn |-> Sign(DotN(a, b)),
             sq |-> Frac(DotN(a, b) * DotN(a, b), na2 * nb2),
             var |-> Frac(dot_product_uncertainty_propagation(
                              a, na2, va, ErrDen(a), b, nb2, vb, ErrDen(b)),
                          na2 * nb2 * ErrDen(a) * ErrDen(b)),
             appIds |-> Ids(a),
             expIds |-> Ids(b),
             decorrelated |-> FALSE,
             normSq |-> <<na2, nb2>>,
             errNormSq |-> <<vector_norm_sq(a), vector_norm_sq(b)>>]

\* calculate_E_from_sensitivity_vecs.  The result is E = sgn*sqrt(sq) with
\* variance var; appIds and expIds are the Variables the two unit vectors
\* depend on when they enter the dot product; normSq and errNormSq are the
\* squared norms used for the nominal unit vectors and for their
\* uncertainties.  fresh is the number of Variables created so far.
calculate_E_from_sensitivity_vecs(application_vector, experiment_vector, application_filename, experiment_filename, uncertainties, experiment_norm, application_norm, fresh) ==
    IF uncertainties = "automatic"
    THEN IF filename_not_provided(application_filename, experiment_filename)
         THEN Raised("ValueError")
         ELSE AutomaticE(application_vector, experiment_vector,
                         application_filename, experiment_filename,
                         application_norm, experiment_norm, fresh)
    ELSE ManualE(application_vector, experiment_vector,
                 application_norm, experiment_norm)

----------------------------------------------------------------------------
(* The similarity index engine and its callers *)

\* profiles of a one-group energy structure
Profiles == {<<[n |-> v, s |-> u]>> : v \in Sensitivities, u \in Sigmas}

ProfileLists == UNION {[1..k -> Profiles] : k \in 1..MaxProfiles}

\* the arguments of a call: norms as squares, NoNorm and NoFile for None
NoCall == [fn |-> "none", uncertainties |-> "", application_norm |-> NoNorm,
           experiment_norm |-> NoNorm, application_filename |-> NoFile,
           experiment_filename |-> NoFile, reaction_type |-> ""]

\* a variant of the test that lets an empty list through
CanConcatenateAnything(sdfs) == TRUE

\* np.concatenate needs at least one array: create_sensitivity_vector of an
\* empty list of profiles raises ValueError
CanConcatenate(sdfs) == sdfs # <<>>

\* the body of the loop of calculate_E for one experiment and one
\* application: both vectors are built, then the engine is called with the
\* two filenames and no norms
calculate_E(application_sdfs, experiment_sdfs, application_filename, experiment_filename, uncertainties, base) ==
    IF ~CanConcatenate(application_sdfs) \/ ~CanConcatenate(experiment_sdfs)
    THEN Raised("ValueError")
    ELSE LET application_vector == create_sensitivity_vector(application_sdfs, base)
             experiment_vector ==
                 create_sensitivity_vector(experiment_sdfs, base + Len(application_vector))
         IN calculate_E_from_sensitivity_vecs(
                application_vector, experiment_vector,
                application_filename, experiment_filename,
                uncertainties, NoNorm, NoNorm,
                base + Len(application_vector) + Len(experiment_vector))

\* calculate_E(application_files, experiment_files, 'all', uncertainties)
\* for one application and one experiment: both files are read, both vectors
\* are built by create_sensitivity_vector, and the engine is called with the
\* two filenames and no norms.
CalculateE ==
    /\ call = NoCall
    /\ \E uncertainties \in Modes :
         LET application_vector == create_sensitivity_vector(application, nextVar)
             experiment_vector ==
                 create_sensitivity_vector(experiment, nextVar + Len(application_vector))
             fresh == nextVar + Len(application_vector) + Len(experiment_vector)
             result == calculate_E(application, experiment,
                                   application_file, experiment_file,
                                   uncertainties, nextVar)
         IN /\ E' = result
            /\ call' = [fn |-> "calculate_E", uncertainties |-> uncertainties,
                        application_norm |-> NoNorm, experiment_norm |-> NoNorm,
                        application_filename |-> application_file,
                        experiment_filename |-> experiment_file,
                        reaction_type |-> "all"]
            /\ nextVar' = IF E'.decorrelated
                          THEN fresh + Len(application_vector) + Len(experiment_vector)
                          ELSE fresh
    /\ UNCHANGED <<application, experiment, application_file, experiment_file>>
    /\ UNCHANGED <<uncVars, decVars, parVars, vecVars, h5Vars>>

\* The call the contribution decomposer makes: manual propagation, no
\* filenames, and both norms supplied by the caller.
ContributionCall ==
    /\ call = NoCall
    /\ \E application_norm \in NormSqs, experiment_norm \in NormSqs :
         LET application_vector == create_sensitivity_vector(application, nextVar)
             experiment_vector ==
                 create_sensitivity_vector(experiment, nextVar + Len(application_vector))
             fresh == nextVar + Len(application_vector) + Len(experiment_vector)
         IN /\ E' = calculate_E_from_sensitivity_vecs(
                        application_vector, experiment_vector, NoFile, NoFile,
                        "manual", experiment_norm, application_norm, fresh)
            /\ call' = [fn |-> "contribution", uncertainties |-> "manual",
                        application_norm |-> application_norm,
                        experiment_norm |-> experiment_norm,
                        application_filename |-> NoFile,
                        experiment_filename |-> NoFile,
                        reaction_type |-> ""]
            /\ nextVar' = fresh
    /\ UNCHANGED <<application, experiment, application_file, experiment_file>>
    /\ UNCHANGED <<uncVars, decVars, parVars, vecVars, h5Vars>>

\* the norms a direct caller passes: none, or both (as squares)
SuppliedNorms == {<<NoNorm, NoNorm>>, <<25, 25>>}

\* none, both, or one of the two
AnyNorms == SuppliedNorms \cup {<<25, NoNorm>>, <<NoNorm, 25>>}

\* A direct call of calculate_E_from_sensitivity_vecs on the two vectors:
\* any value of uncertainties, each filename passed or left at None, the
\* norms passed or left at None.
EngineCall ==
    /\ call = NoCall
    /\ \E uncertainties \in ModeStrings,
          application_filename \in {application_file, NoFile},
          experiment_filename \in {experiment_file, NoFile},
          norms \in SuppliedNorms :
         LET application_vector == create_sensitivity_vector(application, nextVar)
             experiment_vector ==
                 create_sensitivity_vector(experiment, nextVar + Len(application_vector))
             fresh == nextVar + Len(application_vector) + Len(experiment_vector)
             result == calculate_E_from_sensitivity_vecs(
                           application_vector, experiment_vector,
                           application_filename, experiment_filename,
                           uncertainties, norms[2], norms[1], fresh)
         IN /\ E' = result
            /\ call' = [fn |-> "engine", uncertainties |-> uncertainties,
                        application_norm |-> norms[1], experiment_norm |-> norms[2],
                        application_filename |-> application_filename,
                        experiment_filename |-> experiment_filename,
                        reaction_type |-> ""]
            /\ nextVar' = IF E'.decorrelated
                          THEN fresh + Len(application_vector) + Len(experiment_vector)
                          ELSE fresh
    /\ UNCHANGED <<application, experiment, application_file, experiment_file>>
    /\ UNCHANGED <<uncVars, decVars, parVars, vecVars, h5Vars>>

\* A direct call of calculate_E_from_sensitivity_vecs with both filenames,
\* in either mode, each of the two norms passed or left at None.
NormsCall ==
    /\ call = NoCall
    /\ \E uncertainties \in Modes, norms \in AnyNorms :
         LET application_vector == create_sensitivity_vector(application, nextVar)
             experiment_vector ==
                 create_sensitivity_vector(experiment, nextVar + Len(application_vector))
             fresh == nextVar + Len(application_vector) + Len(experiment_vector)
         IN /\ E' = calculate_E_from_sensitivity_vecs(
                        application_vector, experiment_vector,
                        application_file, experiment_file,
                        uncertainties, norms[2], norms[1], fresh)
            /\ call' = [fn |-> "norms", uncertainties |-> uncertainties,
                        application_norm |-> norms[1], experiment_norm |-> norms[2],
                        application_filename |-> application_file,
                        experiment_filename |-> experiment_file,
                        reaction_type |-> ""]
            /\ nextVar' = IF E'.decorrelated
                          THEN fresh + Len(application_vector) + Len(experiment_vector)
                          ELSE fresh
    /\ UNCHANGED <<application, experiment, application_file, experiment_file>>
    /\ UNCHANGED <<uncVars, decVars, parVars, vecVars, h5Vars>>

----------------------------------------------------------------------------
(* The contribution decomposer *)

\* a region-integrated entry of sdf_data
Matches == [isotope : Isotopes, reaction_type : Reactions, sensitivities : DecProfiles]

MatchLists == UNION {[1..k -> Matches] : k \in 0..MaxEntries}

\* the region-integrated entries of the experiment files
ExpMatches == [isotope : Isotopes, reaction_type : Reactions, sensitivities : ExpProfiles]

ExpMatchLists == UNION {[1..k -> ExpMatches] : k \in 0..MaxEntries}

\* RegionIntegratedSdfReader(filename): file is the region-integrated content
\* of the file on disk, sdf_data the attribute (the list, or the nested
\* dictionary once convert_to_dict has run)
Reader(filename, file) ==
    [filename |-> filename, file |-> file, is_dict |-> FALSE, sdf_data |-> file]

\* the keys of a dictionary filled in the order of seq, in insertion order
RECURSIVE KeyOrder(_)
KeyOrder(seq) ==
    IF seq = <<>> THEN <<>>
    ELSE LET init == KeyOrder(SubSeq(seq, 1, Len(seq) - 1))
             key == seq[Len(seq)]
         IN IF \E i \in 1..Len(init) : init[i] = key THEN init ELSE Append(init, key)

Range(seq) == {seq[i] : i \in 1..Len(seq)}

\* convert_to_dict: sdf_data_dict[nuclide][reaction_type] = match for every
\* match of the list, a later match replacing an earlier one of the same
\* key.  The dictionary is the sequence of its items in insertion order.
convert_to_dict(sdf_data) ==
    LET nuclides == KeyOrder([i \in 1..Len(sdf_data) |-> sdf_data[i].isotope])
        of(nuclide) == SelectSeq(sdf_data, LAMBDA m : m.isotope = nuclide)
        reactions(nuclide) ==
            KeyOrder([i \in 1..Len(of(nuclide)) |-> of(nuclide)[i].reaction_type])
        last(nuclide, reaction) ==
            LET ms == SelectSeq(of(nuclide), LAMBDA m : m.reaction_type = reaction)
            IN ms[Len(ms)]
    IN [k \in 1..Len(nuclides) |->
          [isotope |-> nuclides[k],
           reactions |-> [r \in 1..Len(reactions(nuclides[k])) |->
                            last(nuclides[k], reactions(nuclides[k])[r])]]]

\* dict.keys()
Keys(dict) == [k \in 1..Len(dict) |-> dict[k].isotope]

\* dict[isotope].keys(); no key can be looked up under a missing isotope
ReactionKeys(dict, isotope) ==
    IF \A k \in 1..Len(dict) : dict[k].isotope # isotope THEN <<>>
    ELSE LET item == dict[CHOOSE k \in 1..Len(dict) : dict[k].isotope = isotope]
         IN [r \in 1..Len(item.reactions) |-> item.reactions[r].reaction_type]

\* dict[isotope][reaction]['sensitivities']
Lookup(dict, isotope, reaction) ==
    LET item == dict[CHOOSE k \in 1..Len(dict) : dict[k].isotope = isotope]
    IN item.reactions[CHOOSE r \in 1..Len(item.reactions) :
                         item.reactions[r].reaction_type = reaction].sensitivities

\* get_sensitivity_profiles('all'): the file is read again, whatever sdf_data is
get_sensitivity_profiles(reader) ==
    [i \in 1..Len(reader.file) |-> reader.file[i].sensitivities]

\* get_sensitivity_profiles(reaction_type) of a reader whose sdf_data is the
\* list: the file is read again and the profiles of that reaction type (all
\* of them for 'all') are returned in file order
get_sensitivity_profiles_for(reader, reaction_type) ==
    LET selected == SelectSeq(reader.file,
                              LAMBDA m : reaction_type = "all"
                                         \/ m.reaction_type = reaction_type)
    IN [i \in 1..Len(selected) |-> selected[i].sensitivities]

\* a contribution as stored in the result: the value sgn*sqrt(sq), its variance
Contribution(e) == [sgn |-> e.sgn, sq |-> e.sq, var |-> e.var]

\* ufloat(0, 0)
Zero == [sgn |-> 0, sq |-> Frac(0, 1), var |-> Frac(0, 1)]

\* a variant that tests the application only
isotope_does_not_contribute_app_only(app, exp, isotope) ==
    isotope \notin Range(Keys(app))

\* isotope not in application.keys() or isotope not in experiment.keys()
isotope_does_not_contribute(app, exp, isotope) ==
    isotope \notin Range(Keys(app)) \/ isotope \notin Range(Keys(exp))

\* the first exception the body of the loop raises for this isotope, or "ok"
IsotopeStatus(app, exp, isotope, all_reactions, application_norm, experiment_norm) ==
    IF isotope_does_not_contribute(app, exp, isotope) THEN "ok"
    ELSE IF \E r \in 1..Len(all_reactions) :
               \/ all_reactions[r] \notin Range(ReactionKeys(app, isotope))
               \/ all_reactions[r] \notin Range(ReactionKeys(exp, isotope))
         THEN "KeyError"
    ELSE IF application_norm = 0 \/ experiment_norm = 0 THEN "ZeroDivisionError"
    ELSE "ok"

\* get_reaction_wise_E_contributions
get_reaction_wise_E_contributions(app, exp, isotope, all_reactions, application_norm, experiment_norm) ==
    [r \in 1..Len(all_reactions) |->
       [isotope |-> isotope,
        reaction_type |-> all_reactions[r],
        contribution |-> Contribution(calculate_E_from_sensitivity_vecs(
            Uarray(Lookup(app, isotope, all_reactions[r]), 0),
            Uarray(Lookup(exp, isotope, all_reactions[r]), 0),
            NoFile, NoFile, "manual", experiment_norm, application_norm, 0))]]

\* a variant that builds the sub-vectors from the first reaction only
NuclideWiseFirstReaction(app, exp, isotope, all_reactions, application_norm, experiment_norm) ==
    IF isotope_does_not_contribute(app, exp, isotope)
    THEN [isotope |-> isotope, contribution |-> Zero]
    ELSE [isotope |-> isotope,
          contribution |-> Contribution(calculate_E_from_sensitivity_vecs(
              create_sensitivity_vector(<<Lookup(app, isotope, all_reactions[1])>>, 0),
              create_sensitivity_vector(<<Lookup(exp, isotope, all_reactions[1])>>, 0),
              NoFile, NoFile, "manual", experiment_norm, application_norm, 0))]

\* the entry appended to nuclide_wise_contributions for one isotope
NuclideWise(app, exp, isotope, all_reactions, application_norm, experiment_norm) ==
    IF isotope_does_not_contribute(app, exp, isotope)
    THEN [isotope |-> isotope, contribution |-> Zero]
    ELSE [isotope |-> isotope,
          contribution |-> Contribution(calculate_E_from_sensitivity_vecs(
              create_sensitivity_vector(
                  [r \in 1..Len(all_reactions) |-> Lookup(app, isotope, all_reactions[r])], 0),
              create_sensitivity_vector(
                  [r \in 1..Len(all_reactions) |-> Lookup(exp, isotope, all_reactions[r])], 0),
              NoFile, NoFile, "manual", experiment_norm, application_norm, 0))]

\* the entries added to nuclide_reaction_wise_contributions for one isotope
NuclideReactionWise(app, exp, isotope, all_reactions, application_norm, experiment_norm) ==
    IF isotope_does_not_contribute(app, exp, isotope)
    THEN [r \in 1..Len(all_reactions) |->
            [isotope |-> isotope, reaction_type |-> all_reactions[r],
             contribution |-> Zero]]
    ELSE get_reaction_wise_E_contributions(app, exp, isotope, all_reactions,
                                           application_norm, experiment_norm)

NoContributions ==
    [status |-> "none", at |-> "", nuclide_wise |-> <<>>, nuclide_reaction_wise |-> <<>>]

DecRaised(err, at) ==
    [status |-> err, at |-> at, nuclide_wise |-> <<>>, nuclide_reaction_wise |-> <<>>]

\* the orders in which a set can be iterated
Orders(S) == {o \in [1..Cardinality(S) -> S] : \A i, j \in 1..Cardinality(S) :
                                                  o[i] = o[j] => i = j}

\* get_nuclide_and_reaction_wise_E_contributions(application, experiment).
\* all_isotopes is a set: its iteration order is any order.
GetNuclideAndReactionWiseEContributions ==
    /\ contributions = NoContributions
    /\ call = NoCall
    /\ UNCHANGED pair
    /\ IF ~CanConcatenate(get_sensitivity_profiles(appReader))
          \/ ~CanConcatenate(get_sensitivity_profiles(expReader))
       THEN \* np.concatenate of an empty list
            /\ contributions' = DecRaised("ValueError", "norms")
            /\ UNCHANGED <<appReader, expReader>>
       ELSE IF appReader.is_dict
       THEN \* convert_to_dict iterates over the keys of the dictionary:
            \* match['isotope'] of a string
            /\ contributions' = DecRaised("TypeError", "convert_to_dict")
            /\ UNCHANGED <<appReader, expReader>>
       ELSE IF expReader.is_dict
       THEN \* the application is converted before the experiment raises
            /\ contributions' = DecRaised("TypeError", "convert_to_dict")
            /\ appReader' = [appReader EXCEPT !.is_dict = TRUE,
                                              !.sdf_data = convert_to_dict(appReader.sdf_data)]
            /\ UNCHANGED expReader
       ELSE
         LET application_norm ==
                 NormSq(create_sensitivity_vector(get_sensitivity_profiles(appReader), 0))
             experiment_norm ==
                 NormSq(create_sensitivity_vector(get_sensitivity_profiles(expReader), 0))
             app == convert_to_dict(appReader.sdf_data)
             exp == convert_to_dict(expReader.sdf_data)
             all_isotopes == Range(Keys(app)) \cup Range(Keys(exp))
             arbitrary_nuclide == Keys(app)[1]
             all_reactions == ReactionKeys(app, arbitrary_nuclide)
         IN /\ appReader' = [appReader EXCEPT !.is_dict = TRUE, !.sdf_data = app]
            /\ expReader' = [expReader EXCEPT !.is_dict = TRUE, !.sdf_data = exp]
            /\ \E order \in Orders(all_isotopes) :
                 LET status(i) == IsotopeStatus(app, exp, order[i], all_reactions,
                                                application_norm, experiment_norm)
                     failing == {i \in 1..Len(order) : status(i) # "ok"}
                 IN IF failing # {}
                    THEN LET first == CHOOSE i \in failing : \A j \in failing : i <= j
                         IN contributions' = DecRaised(status(first), order[first])
                    ELSE contributions' =
                           [status |-> "returned",
                            at |-> "",
                            nuclide_wise |->
                               [i \in 1..Len(order) |->
                                  NuclideWise(app, exp, order[i], all_reactions,
                                              application_norm, experiment_norm)],
                            nuclide_reaction_wise |->
                               Concat([i \in 1..Len(order) |->
                                  NuclideReactionWise(app, exp, order[i], all_reactions,
                                                      application_norm, experiment_norm)])]
    /\ UNCHANGED <<uncVars, engVars, parVars, vecVars, h5Vars>>

\* calculate_E_contributions: the loops go on to the next pair after a pair
\* returned.  The next pair shares one reader object with the pair before
\* (the same application with the next experiment, or the next application
\* with the same experiment); the other reader is a new object, here one
\* that was built from a file of the same content.
NextPair ==
    /\ contributions.status = "returned"
    /\ pair < MaxPairs
    /\ pair' = pair + 1
    /\ contributions' = NoContributions
    /\ \/ /\ expReader' = Reader(expReader.filename, expReader.file)
          /\ UNCHANGED appReader
       \/ /\ appReader' = Reader(appReader.filename, appReader.file)
          /\ UNCHANGED expReader
    /\ UNCHANGED <<uncVars, engVars, parVars, vecVars, h5Vars>>

\* calculate_E([application], [experiment], reaction_type, uncertainties) on
\* the two files: new readers are built from the files, the profiles of
\* reaction_type selected, and the pair handed to the loop body
CalculateEForReaction ==
    /\ call = NoCall
    /\ contributions = NoContributions
    /\ pair = 1
    /\ \E reaction_type \in Reactions \cup {"all"}, uncertainties \in Modes :
         LET application_sdfs ==
                 get_sensitivity_profiles_for(Reader(appReader.filename, appReader.file),
                                              reaction_type)
             experiment_sdfs ==
                 get_sensitivity_profiles_for(Reader(expReader.filename, expReader.file),
                                              reaction_type)
         IN /\ E' = calculate_E(application_sdfs, experiment_sdfs,
                                appReader.filename, expReader.filename,
                                uncertainties, nextVar)
            /\ call' = [fn |-> "calculate_E", uncertainties |-> uncertainties,
                        application_norm |-> NoNorm, experiment_norm |-> NoNorm,
                        application_filename |-> appReader.filename,
                        experiment_filename |-> expReader.filename,
                        reaction_type |-> reaction_type]
    /\ UNCHANGED <<application, experiment, application_file, experiment_file, nextVar>>
    /\ UNCHANGED <<uncVars, decVars, parVars, vecVars, h5Vars>>

----------------------------------------------------------------------------
(* SdfReader._read_sdf and RegionIntegratedSdfReader.__init__ (readers.py). *)
(* A file is what the grammar sees of it: the integer of the token          *)
(* '<int> number of neutron groups' (NoGroups when the token is missing),   *)
(* the number of scientific-notation values after 'energy boundaries:' (0   *)
(* when the token or the values are missing), and its profile blocks.  A    *)
(* block has a header that the grammar matches or not, the zone number and  *)
(* zone volume of its second line, and the count of values of its data      *)
(* block; the k-th value of a block is written k.                           *)

NoGroups == 0

GroupCounts == {NoGroups, 1, 2}

BoundaryCounts == 0..3

BlockSizes == 0..4

\* a block whose identification line the grammar does not match
GarbledBlock == [header |-> "garbled", zone_number |-> 0, zone_volume |-> 0, numbers |-> 2]

Blocks == [header : {"ok"}, zone_number : {0, 1}, zone_volume : {0, 1},
           numbers : BlockSizes] \cup {GarbledBlock}

SdfFiles == [num_groups : GroupCounts, boundaries : BoundaryCounts,
             blocks : UNION {[1..k -> Blocks] : k \in 0..MaxBlocks}]

\* array[::-1]
Reverse(seq) == [i \in 1..Len(seq) |-> seq[Len(seq) + 1 - i]]

Min(a, b) == IF a < b THEN a ELSE b

\* the values of a data block: OneOrMore(sci_real) skips line ends, so the
\* last group of a match holds every value of the block
BlockData(block) == [i \in 1..block.numbers |-> i]

\* np.array(match[-1][:num_groups])[::-1]
SensitivitiesOf(block, num_groups) ==
    Reverse(SubSeq(BlockData(block), 1, Min(num_groups, block.numbers)))

\* np.array(match[-1][num_groups:])[::-1]
UncertaintiesOf(block, num_groups) ==
    IF block.numbers <= num_groups THEN <<>>
    ELSE Reverse(SubSeq(BlockData(block), num_groups + 1, block.numbers))

\* the two arrays of unumpy.uarray(nominal_values, std_devs) can be
\* broadcast: equal lengths, or one of them of length 1
CanBroadcast(nominal_values, std_devs) ==
    \/ Len(nominal_values) = Len(std_devs)
    \/ Len(nominal_values) = 1
    \/ Len(std_devs) = 1

\* unumpy.uarray(nominal_values, std_devs): numpy.vectorize of Variable over
\* the two arrays broadcast against each other
UarrayOf(nominal_values, std_devs) ==
    IF Len(nominal_values) = Len(std_devs)
    THEN [i \in 1..Len(nominal_values) |-> [n |-> nominal_values[i], s |-> std_devs[i]]]
    ELSE IF Len(nominal_values) = 1
    THEN [i \in 1..Len(std_devs) |-> [n |-> nominal_values[1], s |-> std_devs[i]]]
    ELSE [i \in 1..Len(nominal_values) |-> [n |-> nominal_values[i], s |-> std_devs[1]]]

\* searchString returns the blocks the grammar matches and skips the rest:
\* a match needs the header and at least one value in the data block
Matched(block) == block.header = "ok" /\ block.numbers > 0

\* the outcome of a constructor that raised
ReadRaised(err) == [status |-> err, energy_boundaries |-> <<>>, sdf_data |-> <<>>]

NotRead == ReadRaised("none")

\* SdfReader._read_sdf(filename)
read_sdf(file) ==
    IF file.num_groups = NoGroups THEN ReadRaised("ParseException")
    ELSE IF file.boundaries = 0 THEN ReadRaised("ParseException")
    ELSE LET num_groups == file.num_groups
             found == SelectSeq([k \in 1..Len(file.blocks) |-> k],
                                LAMBDA k : Matched(file.blocks[k]))
         IN IF \E i \in 1..Len(found) :
                   ~CanBroadcast(SensitivitiesOf(file.blocks[found[i]], num_groups),
                                 UncertaintiesOf(file.blocks[found[i]], num_groups))
            THEN ReadRaised("ValueError")
            ELSE [status |-> "ok",
                  energy_boundaries |-> [i \in 1..file.boundaries |-> i],
                  sdf_data |->
                     [i \in 1..Len(found) |->
                        [block |-> found[i],
                         zone_number |-> file.blocks[found[i]].zone_number,
                         zone_volume |-> file.blocks[found[i]].zone_volume,
                         sensitivities |->
                            UarrayOf(SensitivitiesOf(file.blocks[found[i]], num_groups),
                                     UncertaintiesOf(file.blocks[found[i]], num_groups))]]]

\* a variant of the filter that tests the zone number only
IsRegionIntegratedZoneOnly(match) == match.zone_number = 0

\* match['zone_number'] == 0 and match['zone_volume'] == 0
IsRegionIntegrated(match) == match.zone_number = 0 /\ match.zone_volume = 0

\* SdfReader(filename)
SdfReaderInit ==
    /\ sdfReader = NotRead
    /\ sdfReader' = read_sdf(sdfFile)
    /\ UNCHANGED <<sdfFile, regionReader, legacyReader>>
    /\ UNCHANGED <<uncVars, engVars, decVars, vecVars, h5Vars>>

\* RegionIntegratedSdfReader(filename): super().__init__, then the filter
RegionIntegratedSdfReaderInit ==
    /\ regionReader = NotRead
    /\ LET read == read_sdf(sdfFile)
       IN regionReader' =
             IF read.status # "ok" THEN read
             ELSE [read EXCEPT !.sdf_data = SelectSeq(read.sdf_data, IsRegionIntegrated)]
    /\ UNCHANGED <<sdfFile, sdfReader, legacyReader>>
    /\ UNCHANGED <<uncVars, engVars, decVars, vecVars, h5Vars>>

\* tsunami_ip_utils.py, np.array(match[-1][:num_groups]): the module-level
\* SdfReader keeps the file order
LegacySensitivitiesOf(block, num_groups) ==
    SubSeq(BlockData(block), 1, Min(num_groups, block.numbers))

\* tsunami_ip_utils.py, np.array(match[-1][num_groups:])
LegacyUncertaintiesOf(block, num_groups) ==
    IF block.numbers <= num_groups THEN <<>>
    ELSE SubSeq(BlockData(block), num_groups + 1, block.numbers)

\* tsunami_ip_utils.py, SdfReader._read_sdf(filename)
legacy_read_sdf(file) ==
    IF file.num_groups = NoGroups THEN ReadRaised("ParseException")
    ELSE IF file.boundaries = 0 THEN ReadRaised("ParseException")
    ELSE LET num_groups == file.num_groups
             found == SelectSeq([k \in 1..Len(file.blocks) |-> k],
                                LAMBDA k : Matched(file.blocks[k]))
         IN IF \E i \in 1..Len(found) :
                   ~CanBroadcast(LegacySensitivitiesOf(file.blocks[found[i]], num_groups),
                                 LegacyUncertaintiesOf(file.blocks[found[i]], num_groups))
            THEN ReadRaised("ValueError")
            ELSE [status |-> "ok",
                  energy_boundaries |-> [i \in 1..file.boundaries |-> i],
                  sdf_data |->
                     [i \in 1..Len(found) |->
                        [block |-> found[i],
                         zone_number |-> file.blocks[found[i]].zone_number,
                         zone_volume |-> file.blocks[found[i]].zone_volume,
                         sensitivities |->
                            UarrayOf(LegacySensitivitiesOf(file.blocks[found[i]], num_groups),
                                     LegacyUncertaintiesOf(file.blocks[found[i]], num_groups))]]]

\* tsunami_ip_utils.py, SdfReader(filename)
LegacySdfReaderInit ==
    /\ legacyReader = NotRead
    /\ legacyReader' = legacy_read_sdf(sdfFile)
    /\ UNCHANGED <<sdfFile, sdfReader, regionReader>>
    /\ UNCHANGED <<uncVars, engVars, decVars, vecVars, h5Vars>>

----------------------------------------------------------------------------
(* The vector builder on a reader of readers.py: convert_to_dict,          *)
(* get_sensitivity_profiles and create_sensitivity_vector.  The profiles   *)
(* have one or two energy groups.                                          *)

GroupProfiles == {<<[n |-> -1, s |-> 1]>>, <<[n |-> 2, s |-> 0], [n |-> 3, s |-> 1]>>, <<[n |-> 4, s |-> 1], [n |-> 5, s |-> 0]>>}

GroupMatches == [isotope : Isotopes, reaction_type : Reactions, sensitivities : GroupProfiles]

GroupMatchLists == UNION {[1..k -> GroupMatches] : k \in 0..MaxListed}

NoProfiles == [status |-> "none", reaction_type |-> "", list |-> <<>>]

NoVector == [status |-> "none", vector |-> <<>>]

\* readers.py, convert_to_dict(): a reader that holds a dictionary is
\* returned as it is
ReaderConvertToDict(r) ==
    IF r.is_dict THEN r
    ELSE [r EXCEPT !.is_dict = TRUE, !.sdf_data = convert_to_dict(r.sdf_data)]

\* [reaction['sensitivities'] for isotope in self.sdf_data.values()
\*  for reaction in isotope.values() if ...]: the dictionary in insertion order
DictProfiles(dict, reaction_type) ==
    Concat([k \in 1..Len(dict) |->
              LET kept == SelectSeq(dict[k].reactions,
                                    LAMBDA m : reaction_type = "all"
                                               \/ m.reaction_type = reaction_type)
              IN [r \in 1..Len(kept) |-> kept[r].sensitivities]])

\* readers.py, get_sensitivity_profiles(reaction_type): a reader that holds
\* the list reads the file again, a reader that holds the dictionary walks it
ReaderGetSensitivityProfiles(r, reaction_type) ==
    IF r.is_dict THEN DictProfiles(r.sdf_data, reaction_type)
    ELSE get_sensitivity_profiles_for(r, reaction_type)

\* reader.convert_to_dict()
ConvertToDict ==
    /\ builderReader' = ReaderConvertToDict(builderReader)
    /\ UNCHANGED <<builderProfiles, sensitivity_vector>>
    /\ UNCHANGED <<uncVars, engVars, decVars, parVars, h5Vars>>

\* reader.get_sensitivity_profiles(reaction_type)
GetSensitivityProfiles ==
    /\ builderProfiles = NoProfiles
    /\ \E reaction_type \in Reactions \cup {"all"} :
          builderProfiles' =
             [status |-> "returned", reaction_type |-> reaction_type,
              list |-> ReaderGetSensitivityProfiles(builderReader, reaction_type)]
    /\ UNCHANGED <<builderReader, sensitivity_vector>>
    /\ UNCHANGED <<uncVars, engVars, decVars, parVars, h5Vars>>

\* create_sensitivity_vector(profiles)
CreateSensitivityVector ==
    /\ builderProfiles # NoProfiles
    /\ sensitivity_vector = NoVector
    /\ sensitivity_vector' =
          IF ~CanConcatenate(builderProfiles.list)
          THEN [status |-> "ValueError", vector |-> <<>>]
          ELSE [status |-> "ok",
                vector |-> create_sensitivity_vector(builderProfiles.list, 0)]
    /\ UNCHANGED <<builderReader, builderProfiles>>
    /\ UNCHANGED <<uncVars, engVars, decVars, parVars, h5Vars>>

----------------------------------------------------------------------------
(* read_region_integrated_h5_sdf (readers.py).  The container holds one     *)
(* row per profile in the datasets unit, nuclide_id, mt, profile_values and *)
(* profile_sigmas; rows are numbered from 1 here and from 0 in the code.    *)

H5Rows == [unit : {0, 1}, nuclide_id : {92235, 92238}, mt : {18, 102}, profile_values : {<<1, 2>>, <<3, 4>>}, profile_sigmas : {<<5, 6>>, <<7, 8>>}]

H5Files == UNION {[1..k -> H5Rows] : k \in 0..MaxH5Rows}

NoData == [status |-> "none", sdf_data |-> {}]

\* np.where(f['unit'][:] == 0)[0]
region_integrated_indices(file) ==
    SelectSeq([k \in 1..Len(file) |-> k], LAMBDA k : file[k].unit = 0)

\* dataset[region_integrated_indices]: the selected rows, renumbered from the
\* start
Selected(file) ==
    [k \in 1..Len(region_integrated_indices(file)) |->
       file[region_integrated_indices(file)[k]]]

\* the entry the loop stores for one index: the selected arrays are indexed
\* with the index of the row in the container
StoredEntry(file, index) ==
    [nuclide_id |-> Selected(file)[index].nuclide_id,
     mt |-> Selected(file)[index].mt,
     sensitivities |-> UarrayOf(Reverse(Selected(file)[index].profile_values),
                                Reverse(Selected(file)[index].profile_sigmas))]

\* read_region_integrated_h5_sdf(filename): the nested dictionary as the set
\* of its (nuclide, reaction, profile) items, a later assignment to a key
\* replacing an earlier one; IndexError when an index is past the end of
\* the selected arrays
read_region_integrated_h5_sdf(file) ==
    LET indices == region_integrated_indices(file)
        stored == [k \in 1..Len(indices) |-> StoredEntry(file, indices[k])]
        last(k) == \A j \in (k + 1)..Len(indices) :
                      \/ stored[j].nuclide_id # stored[k].nuclide_id
                      \/ stored[j].mt # stored[k].mt
    IN IF \E k \in 1..Len(indices) : indices[k] > Len(indices)
       THEN [status |-> "IndexError", sdf_data |-> {}]
       ELSE [status |-> "ok",
             sdf_data |-> {stored[k] : k \in {j \in 1..Len(indices) : last(j)}}]

ReadRegionIntegratedH5Sdf ==
    /\ h5Data = NoData
    /\ h5Data' = read_region_integrated_h5_sdf(h5File)
    /\ UNCHANGED h5File
    /\ UNCHANGED <<uncVars, engVars, decVars, parVars, vecVars>>

----------------------------------------------------------------------------
(* Specifications: one per component; the variables of the other           *)
(* components stay at their idle values.                                   *)

EngIdle ==
    /\ application = <<>>
    /\ experiment = <<>>
    /\ application_file = NoFile
    /\ experiment_file = NoFile
    /\ nextVar = 0
    /\ call = NoCall
    /\ E = Raised("none")

UncIdle ==
    /\ table = NoTable
    /\ filenames = <<>>
    /\ pc = "idle"
    /\ inputFile = FALSE
    /\ outputFile = "absent"
    /\ solverRuns = 0
    /\ exitCode = -1
    /\ sdfResult = None
    /\ outResult = None

ParIdle ==
    /\ sdfFile = [num_groups |-> NoGroups, boundaries |-> 0, blocks |-> <<>>]
    /\ sdfReader = NotRead
    /\ regionReader = NotRead
    /\ legacyReader = NotRead

VecIdle ==
    /\ builderReader = Reader(NoFile, <<>>)
    /\ builderProfiles = NoProfiles
    /\ sensitivity_vector = NoVector

H5Idle ==
    /\ h5File = <<>>
    /\ h5Data = NoData

DecIdle ==
    /\ appReader = Reader(NoFile, <<>>)
    /\ expReader = Reader(NoFile, <<>>)
    /\ contributions = NoContributions
    /\ pair = 1

UncInit ==
    /\ table \in Tables \cup {NoTable}
    /\ filenames \in UNION {[1..k -> {"a.sdf", "b.sdf"}] : k \in 0..MaxFiles}
    /\ pc = "idle"
    /\ inputFile = FALSE
    /\ outputFile = "absent"
    /\ solverRuns = 0
    /\ exitCode = -1
    /\ sdfResult = None
    /\ outResult = None
    /\ EngIdle
    /\ DecIdle
    /\ ParIdle
    /\ VecIdle
    /\ H5Idle

UncNext ==
    \/ ReadUncertaintyContributionsOut
    \/ SdfWriteInput
    \/ SdfRunSolver
    \/ SdfProcessOutput

SpecUnc == UncInit /\ [][UncNext]_vars

\* one application file and one experiment file; the same file read twice
\* holds the same profiles
EngInit ==
    /\ application_file = "a.sdf"
    /\ experiment_file \in Files
    /\ application \in ProfileLists
    /\ experiment \in IF experiment_file = application_file
                      THEN {application} ELSE ProfileLists
    /\ nextVar = 0
    /\ call = NoCall
    /\ E = Raised("none")
    /\ UncIdle
    /\ DecIdle
    /\ ParIdle
    /\ VecIdle
    /\ H5Idle

EngNext ==
    \/ CalculateE
    \/ ContributionCall
    \/ EngineCall

SpecEng == EngInit /\ [][EngNext]_vars

\* the engine as its two callers in the module use it: calculate_E with the
\* norms left out, the decomposer in manual mode with both norms
ManNext ==
    \/ CalculateE
    \/ ContributionCall

SpecMan == EngInit /\ [][ManNext]_vars

\* the engine called directly with any combination of norms
NrmNext == NormsCall

SpecNrm == EngInit /\ [][NrmNext]_vars

DecInit ==
    /\ appReader \in {Reader("a.sdf", f) : f \in MatchLists}
    /\ expReader \in {Reader("b.sdf", f) : f \in ExpMatchLists}
    /\ contributions = NoContributions
    /\ pair = 1
    /\ UncIdle
    /\ EngIdle
    /\ ParIdle
    /\ VecIdle
    /\ H5Idle

DecNext ==
    \/ GetNuclideAndReactionWiseEContributions
    \/ NextPair
    \/ CalculateEForReaction

SpecDec == DecInit /\ [][DecNext]_vars

ParInit ==
    /\ sdfFile \in SdfFiles
    /\ sdfReader = NotRead
    /\ regionReader = NotRead
    /\ legacyReader = NotRead
    /\ UncIdle
    /\ EngIdle
    /\ DecIdle
    /\ VecIdle
    /\ H5Idle

ParNext ==
    \/ SdfReaderInit
    \/ RegionIntegratedSdfReaderInit
    \/ LegacySdfReaderInit

SpecPar == ParInit /\ [][ParNext]_vars

VecInit ==
    /\ builderReader \in {Reader("a.sdf", f) : f \in GroupMatchLists}
    /\ builderProfiles = NoProfiles
    /\ sensitivity_vector = NoVector
    /\ UncIdle
    /\ EngIdle
    /\ DecIdle
    /\ ParIdle
    /\ H5Idle

VecNext ==
    \/ ConvertToDict
    \/ GetSensitivityProfiles
    \/ CreateSensitivityVector

SpecVec == VecInit /\ [][VecNext]_vars

H5Init ==
    /\ h5File \in H5Files
    /\ h5Data = NoData
    /\ UncIdle
    /\ EngIdle
    /\ DecIdle
    /\ ParIdle
    /\ VecIdle

H5Next == ReadRegionIntegratedH5Sdf

SpecH5 == H5Init /\ [][H5Next]_vars

----------------------------------------------------------------------------
(* Properties of the contribution decomposer (SpecDec) *)

AppIsotopes == {appReader.file[i].isotope : i \in 1..Len(appReader.file)}

ExpIsotopes == {expReader.file[i].isotope : i \in 1..Len(expReader.file)}

\* the nuclides present in only one of the two profile sets
OneSided == (AppIsotopes \cup ExpIsotopes) \ (AppIsotopes \cap ExpIsotopes)

\* C1: a nuclide present in only one of the application and experiment
\* profile sets gets the nuclide contribution (0, 0) and the contribution
\* (0, 0) for every reaction emitted under it, and handling it raises no
\* error: an exception of the call never comes from such a nuclide.
C1_AbsentNuclideIsZero ==
    /\ contributions.status \notin {"none", "returned"} => contributions.at \notin OneSided
    /\ contributions.status = "returned" =>
         \A iso \in OneSided :
            /\ Cardinality({i \in 1..Len(contributions.nuclide_wise) :
                              contributions.nuclide_wise[i].isotope = iso}) = 1
            /\ \A i \in 1..Len(contributions.nuclide_wise) :
                  contributions.nuclide_wise[i].isotope = iso =>
                     contributions.nuclide_wise[i].contribution = Zero
            /\ \E i \in 1..Len(contributions.nuclide_reaction_wise) :
                  contributions.nuclide_reaction_wise[i].isotope = iso
            /\ \A i \in 1..Len(contributions.nuclide_reaction_wise) :
                  contributions.nuclide_reaction_wise[i].isotope = iso =>
                     contributions.nuclide_reaction_wise[i].contribution = Zero

\* C1 witness: a call that returned for a pair with a nuclide on one side
\* only and a nuclide on both sides whose contribution is not zero
C1_Witness ==
    /\ contributions.status = "returned"
    /\ OneSided # {}
    /\ \E i \in 1..Len(contributions.nuclide_wise) :
          contributions.nuclide_wise[i].contribution.sgn # 0

----------------------------------------------------------------------------
(* Properties of the uncertainty-contribution readers (SpecUnc) *)

\* the signed-quadrature rule: sign(t) * sqrt(|t|) for the running sum t
SignedRoot(t) == [real |-> TRUE, sgn |-> Sign(t), rad |-> Abs(t)]

FollowsRule(isotope_totals) ==
    \A k \in 1..Len(isotope_totals) :
       isotope_totals[k].contribution = SignedRoot(RunningSum(table, isotope_totals[k].isotope))

\* C2: at both call sites the nuclide total is sign(t) * sqrt(|t|), where the
\* running sum t adds c^2 for every contribution c >= 0 of the nuclide and
\* subtracts c^2 for every c < 0.
C2_SignedQuadratureRule ==
    /\ sdfResult.status = "returned" /\ table # NoTable =>
          FollowsRule(sdfResult.isotope_totals[1])
    /\ outResult.status # "none" /\ table # NoTable =>
          outResult.status = "returned" /\ FollowsRule(outResult.isotope_totals)

\* C3: read_uncertainty_contributions_out and
\* read_uncertainty_contributions_sdf compute the same nuclide totals from
\* the same table of reaction contributions.
C3_CallSitesAgree ==
    sdfResult.status = "returned" /\ outResult.status # "none" /\ table # NoTable =>
       /\ outResult.status = "returned"
       /\ outResult.isotope_totals = sdfResult.isotope_totals[1]

\* C4: whenever read_uncertainty_contributions_sdf has returned or raised,
\* the temporary input file and the solver output file are deleted.
C4_TempFilesReleased ==
    pc \in {"returned", "raised"} => inputFile = FALSE /\ outputFile = "absent"

\* C5: the solver runs at most once per call, and the call returns
\* contributions only after the solver exited with code 0 (a nonzero exit
\* code makes the call fail).
C5_SolverFailureIsHard ==
    /\ solverRuns <= 1
    /\ pc = "returned" => exitCode = 0

----------------------------------------------------------------------------
(* Properties of the similarity index engine (SpecEng) *)

\* the vectors calculate_E and the contribution call build
ApplicationVector == create_sensitivity_vector(application, 0)

ExperimentVector == create_sensitivity_vector(experiment, Len(ApplicationVector))

\* C6: when both norms are supplied, the unit-vector nominal values and the
\* unit-vector uncertainty propagation both normalise with the supplied norms.
C6_SuppliedNormsUsedEverywhere ==
    call.fn = "contribution" /\ E.status = "ok" =>
       /\ E.normSq = <<call.application_norm, call.experiment_norm>>
       /\ E.errNormSq = <<call.application_norm, call.experiment_norm>>

SameCaseAutomatic ==
    /\ call.fn = "calculate_E"
    /\ call.uncertainties = "automatic"
    /\ application_file = experiment_file
    /\ E.status = "ok"

C8_DecorrelatedIffDifferentCases ==
    call.fn = "calculate_E" /\ call.uncertainties = "automatic" /\ E.status = "ok" =>
       /\ E.decorrelated <=> application_file # experiment_file
       /\ application_file # experiment_file =>
             /\ E.appIds \cap E.expIds = {}
             /\ (E.appIds \cup E.expIds) \cap (Ids(ApplicationVector) \cup Ids(ExperimentVector)) = {}
             /\ Cardinality(E.appIds) = Len(ApplicationVector)
             /\ Cardinality(E.expIds) = Len(ExperimentVector)

\* C8 witness: two different cases compared in 'automatic' mode
C8_Witness ==
    /\ call.fn = "calculate_E"
    /\ call.uncertainties = "automatic"
    /\ E.status = "ok"
    /\ application_file # experiment_file
    /\ E.decorrelated

NoZeroComponent(v) == \A i \in 1..Len(v) : v[i].n # 0

OtherMode(m) == IF m = "automatic" THEN "manual" ELSE "automatic"

\* C9: for equal-length vectors without zero components from two different
\* files, the 'manual' and the 'automatic' mode return the same E and the
\* same uncertainty.
C9_ModesAgree ==
    /\ call.fn = "calculate_E"
    /\ E.status = "ok"
    /\ application_file # experiment_file
    /\ NoZeroComponent(ApplicationVector)
    /\ NoZeroComponent(ExperimentVector)
    => LET other == calculate_E_from_sensitivity_vecs(
                        ApplicationVector, ExperimentVector,
                        application_file, experiment_file,
                        OtherMode(call.uncertainties), NoNorm, NoNorm,
                        Len(ApplicationVector) + Len(ExperimentVector))
       IN other.status = "ok" /\ other.sgn = E.sgn /\ other.sq = E.sq /\ other.var = E.var

\* C9 witness: such a pair with uncertain components in both vectors and a
\* nonzero uncertainty of E
C9_Witness ==
    /\ call.fn = "calculate_E"
    /\ E.status = "ok"
    /\ application_file # experiment_file
    /\ NoZeroComponent(ApplicationVector)
    /\ NoZeroComponent(ExperimentVector)
    /\ Len(ApplicationVector) > 1
    /\ E.var.num # 0
    /\ \E i \in 1..Len(ExperimentVector) : ExperimentVector[i].s # 0

SameValues(a, b) == Len(a) = Len(b) /\ \A i \in 1..Len(a) : a[i].n = b[i].n

\* C10: without supplied norms, E*E <= 1; E = 1 when the application and
\* the experiment vector have the same values, and E = 0 when they are
\* orthogonal.
C10_EBounded ==
    call.fn = "calculate_E" /\ E.status = "ok" =>
       /\ E.sq.num <= E.sq.den
       /\ SameValues(ApplicationVector, ExperimentVector) =>
             E.sgn = 1 /\ E.sq = Frac(1, 1)
       /\ DotN(ApplicationVector, ExperimentVector) = 0 =>
             E.sgn = 0 /\ E.sq = Frac(0, 1)

\* C10 witness: two vectors of two components that are neither parallel nor
\* orthogonal
C10_Witness ==
    /\ call.fn = "calculate_E"
    /\ E.status = "ok"
    /\ Len(ApplicationVector) > 1
    /\ E.sgn = -1
    /\ E.sq.num < E.sq.den

\* C11: a call of calculate_E_from_sensitivity_vecs on an application and an
\* experiment vector of unequal length raises, in every mode and with or
\* without supplied norms: no E is returned.
C11_UnequalLengthsRaise ==
    call.fn # "none" /\ Len(ApplicationVector) # Len(ExperimentVector) =>
       E.status \notin {"ok", "none"}

\* C11 witness: unequal lengths, both filenames and both norms passed, in
\* 'automatic' mode, where nothing else than the dot product can raise
C11_Witness ==
    /\ call.fn = "engine"
    /\ call.uncertainties = "automatic"
    /\ call.application_norm # NoNorm
    /\ call.application_filename # NoFile
    /\ call.experiment_filename # NoFile
    /\ Len(ApplicationVector) < Len(ExperimentVector)
    /\ E.status = "ValueError"

\* C12: 'automatic' mode without both filenames raises ValueError whatever
\* the vectors and norms are (so before any normalisation or dot product),
\* and 'manual' mode returns E without them.
C12_AutomaticNeedsFilenames ==
    /\ /\ call.fn = "engine"
       /\ call.uncertainties = "automatic"
       /\ (call.application_filename = NoFile \/ call.experiment_filename = NoFile)
       => E.status = "ValueError" /\ E.normSq = <<0, 0>>
    /\ /\ call.fn = "engine"
       /\ call.uncertainties = "manual"
       /\ Len(ApplicationVector) = Len(ExperimentVector)
       /\ (call.application_norm = NoNorm =>
              NormSq(ApplicationVector) # 0 /\ NormSq(ExperimentVector) # 0)
       => E.status = "ok"

\* C12 witness: 'automatic' mode with only the experiment filename missing
\* on vectors that 'manual' mode accepts
C12_Witness ==
    /\ call.fn = "engine"
    /\ call.uncertainties = "automatic"
    /\ call.application_filename # NoFile
    /\ call.experiment_filename = NoFile
    /\ Len(ApplicationVector) = Len(ExperimentVector)
    /\ NormSq(ApplicationVector) # 0
    /\ NormSq(ExperimentVector) # 0
    /\ E.status = "ValueError"

\* C13: a value of uncertainties other than 'automatic' and 'manual' is
\* rejected: the call raises and no E is returned.
C13_UnknownModeRejected ==
    call.fn = "engine" /\ call.uncertainties \notin Modes => E.status # "ok"

----------------------------------------------------------------------------
(* Properties of calculate_E on files (SpecDec) *)

\* the profiles calculate_E selected from the two files
SelectedApplication == get_sensitivity_profiles_for(appReader, call.reaction_type)

SelectedExperiment == get_sensitivity_profiles_for(expReader, call.reaction_type)

\* C14: when the selection of profiles ('all' or one reaction type) is empty
\* for the application or the experiment, calculate_E raises the ValueError
\* of create_sensitivity_vector and produces no E.
C14_EmptySelectionRaises ==
    /\ call.fn = "calculate_E"
    /\ (SelectedApplication = <<>> \/ SelectedExperiment = <<>>)
    => E.status = "ValueError"

\* C14 witness: a reaction type that the application file, which is not
\* empty, holds no profile of, while the experiment file does
C14_Witness ==
    /\ call.fn = "calculate_E"
    /\ call.reaction_type \in Reactions
    /\ call.uncertainties = "manual"
    /\ appReader.file # <<>>
    /\ SelectedApplication = <<>>
    /\ SelectedExperiment # <<>>
    /\ E.status = "ValueError"

----------------------------------------------------------------------------
(* Consistency of the contributions with each other and with E (SpecDec) *)

\* the product of the squared norms of the two full vectors: every
\* contribution of the pair is an integer over its square root
NormProduct ==
    NormSq(create_sensitivity_vector(get_sensitivity_profiles(appReader), 0))
    * NormSq(create_sensitivity_vector(get_sensitivity_profiles(expReader), 0))

IntSqrt(n) == CHOOSE k \in 0..n : k * k = n

\* the integer d of a contribution d / sqrt(NormProduct)
Numerator(c) == c.sgn * IntSqrt((c.sq.num * NormProduct) \div c.sq.den)

\* the reaction contributions stored under one nuclide
ReactionsOf(isotope) ==
    SelectSeq(contributions.nuclide_reaction_wise, LAMBDA c : c.isotope = isotope)

\* plain sum of contributions, as an integer over sqrt(NormProduct)
PlainSum(cs) == SumSeq([i \in 1..Len(cs) |-> Numerator(cs[i].contribution)])

\* running sum of the signed-quadrature rule, as an integer over NormProduct
QuadratureSum(cs) ==
    SumSeq([i \in 1..Len(cs) |->
              cs[i].contribution.sgn * Numerator(cs[i].contribution)
                                     * Numerator(cs[i].contribution)])

\* the signed-quadrature total of cs is the value c
QuadratureGives(cs, c) ==
    /\ Sign(QuadratureSum(cs)) = c.sgn
    /\ Abs(QuadratureSum(cs)) = Numerator(c) * Numerator(c)

\* E of the pair as calculate_E computes it with reaction_type 'all'
TotalE ==
    calculate_E(get_sensitivity_profiles(appReader), get_sensitivity_profiles(expReader),
                appReader.filename, expReader.filename, "manual", 0)

FileKeys(file) == [i \in 1..Len(file) |-> <<file[i].isotope, file[i].reaction_type>>]

\* both files hold the same (nuclide, reaction) pairs in the same order, each
\* pair once, and every nuclide has the same reactions
Aligned ==
    /\ FileKeys(appReader.file) = FileKeys(expReader.file)
    /\ \A i, j \in 1..Len(appReader.file) :
          FileKeys(appReader.file)[i] = FileKeys(appReader.file)[j] => i = j
    /\ \A i, j \in 1..Len(appReader.file) :
          \E k \in 1..Len(appReader.file) :
             FileKeys(appReader.file)[k] =
                <<appReader.file[i].isotope, appReader.file[j].reaction_type>>

C20_ReadersUnchanged ==
    /\ contributions.status = "returned" =>
          /\ ~appReader.is_dict /\ appReader.sdf_data = appReader.file
          /\ ~expReader.is_dict /\ expReader.sdf_data = expReader.file
    /\ pair > 1 => contributions.at # "convert_to_dict"

----------------------------------------------------------------------------
(* Properties of the sensitivity file readers (SpecPar) *)

\* a profile block that is not a profile block of the format: the grammar
\* does not match its header, or it has no data block
MalformedBlock(block) == block.header # "ok" \/ block.numbers = 0

\* C15: SdfReader(filename) raises when the group-count token is missing,
\* when the energy-boundary block is missing, when a profile block is
\* malformed and when the file has no profile block.
C15_MalformedFileRaises ==
    /\ sdfReader.status # "none"
    /\ \/ sdfFile.num_groups = NoGroups
       \/ sdfFile.boundaries = 0
       \/ sdfFile.blocks = <<>>
       \/ \E k \in 1..Len(sdfFile.blocks) : MalformedBlock(sdfFile.blocks[k])
    => sdfReader.status # "ok"

\* C16: the profiles a RegionIntegratedSdfReader holds all have zone number 0
\* and zone volume 0, every parsed profile with both is among them, they
\* are parsed profiles in the order of the file, and they are no more than
\* the parsed profiles.
C16_RegionIntegratedFilter ==
    regionReader.status = "ok" =>
       LET parsed == read_sdf(sdfFile).sdf_data
           kept == regionReader.sdf_data
       IN /\ \A i \in 1..Len(kept) :
                kept[i].zone_number = 0 /\ kept[i].zone_volume = 0
          /\ \A j \in 1..Len(parsed) :
                parsed[j].zone_number = 0 /\ parsed[j].zone_volume = 0 =>
                   \E i \in 1..Len(kept) : kept[i] = parsed[j]
          /\ \A i \in 1..Len(kept) : \E j \in 1..Len(parsed) : kept[i] = parsed[j]
          /\ \A i, j \in 1..Len(kept) : i < j => kept[i].block < kept[j].block
          /\ Len(kept) <= Len(parsed)

\* C16 witness: a file of two parsed profiles of which the filter keeps one
\* and drops one of zone number 0 and zone volume 1
C16_Witness ==
    /\ regionReader.status = "ok"
    /\ Len(read_sdf(sdfFile).sdf_data) = 2
    /\ Len(regionReader.sdf_data) = 1
    /\ \E j \in 1..2 : /\ read_sdf(sdfFile).sdf_data[j].zone_number = 0
                        /\ read_sdf(sdfFile).sdf_data[j].zone_volume = 1

\* C17: a file that was read has as many energy boundaries as the token
\* 'number of neutron groups' declares.
C17_BoundariesMatchGroupCount ==
    sdfReader.status = "ok" => Len(sdfReader.energy_boundaries) = sdfFile.num_groups

\* C18: every profile of a file that was read has as many sensitivities as
\* the header declares groups, each with an uncertainty of its own.
C18_ProfileLengthIsGroupCount ==
    sdfReader.status = "ok" =>
       \A p \in 1..Len(sdfReader.sdf_data) :
          LET sensitivities == sdfReader.sdf_data[p].sensitivities
          IN /\ Len(sensitivities) = sdfFile.num_groups
             /\ \A i, j \in 1..Len(sensitivities) :
                   i # j => sensitivities[i].s # sensitivities[j].s

----------------------------------------------------------------------------
(* Properties of the dictionary conversion of a reader (SpecDec) *)

\* the number of (nuclide, reaction) entries of a nested dictionary
DictEntries(dict) == SumSeq([k \in 1..Len(dict) |-> Len(dict[k].reactions)])

\* no two profiles of the list have the same nuclide and the same reaction
OnePerPair(sdf_data) ==
    \A i, j \in 1..Len(sdf_data) :
       i # j => \/ sdf_data[i].isotope # sdf_data[j].isotope
                \/ sdf_data[i].reaction_type # sdf_data[j].reaction_type

\* C21: the region-integrated profiles of a reader hold at most one profile
\* per (nuclide, reaction) pair, and the nested dictionary that
\* convert_to_dict leaves in the reader has as many (nuclide, reaction)
\* entries as the region-integrated list has profiles.
C21_DictKeepsEveryProfile ==
    /\ OnePerPair(appReader.file) /\ OnePerPair(expReader.file)
    /\ appReader.is_dict => DictEntries(appReader.sdf_data) = Len(appReader.file)
    /\ expReader.is_dict => DictEntries(expReader.sdf_data) = Len(expReader.file)

\* the reaction set of a converted pair: the reactions of the first nuclide
\* of the application dictionary
AllReactions == ReactionKeys(appReader.sdf_data, Keys(appReader.sdf_data)[1])

\* the nuclide is in both dictionaries and one of them has no profile for a
\* reaction of the reaction set
MissingReaction(isotope, reaction) ==
    /\ isotope \in Range(Keys(appReader.sdf_data))
    /\ isotope \in Range(Keys(expReader.sdf_data))
    /\ reaction \in Range(AllReactions)
    /\ \/ reaction \notin Range(ReactionKeys(appReader.sdf_data, isotope))
       \/ reaction \notin Range(ReactionKeys(expReader.sdf_data, isotope))

\* C22: when the decomposition of a pair got as far as its loop over the
\* nuclides, a reaction that is missing for a nuclide present on both sides
\* is no error: the call returns, and the (nuclide, reaction) key has the
\* contribution zero.
C22_MissingReactionIsZero ==
    /\ contributions.status # "none"
    /\ contributions.at \notin {"norms", "convert_to_dict"}
    => \A isotope \in Isotopes, reaction \in Reactions :
          MissingReaction(isotope, reaction) =>
             /\ contributions.status = "returned"
             /\ \E i \in 1..Len(contributions.nuclide_reaction_wise) :
                   /\ contributions.nuclide_reaction_wise[i].isotope = isotope
                   /\ contributions.nuclide_reaction_wise[i].reaction_type = reaction
                   /\ contributions.nuclide_reaction_wise[i].contribution = Zero

----------------------------------------------------------------------------
(* Properties of the stored group order (SpecPar) *)

\* the block holds one value and one uncertainty for each declared group
WellFormed(block) == block.numbers = 2 * sdfFile.num_groups

\* the stored profile is the block reversed: stored value k is raw value
\* G-1-k and its uncertainty is raw uncertainty G-1-k (counting from 0)
StoredReversed(match) ==
    LET G == sdfFile.num_groups
        raw == BlockData(sdfFile.blocks[match.block])
    IN /\ Len(match.sensitivities) = G
       /\ \A k \in 0..(G - 1) :
             /\ match.sensitivities[k + 1].n = raw[(G - 1 - k) + 1]
             /\ match.sensitivities[k + 1].s = raw[G + (G - 1 - k) + 1]

\* C23: every profile parsed from a well-formed block is stored reversed
\* relative to the file, each value with its own uncertainty, by the
\* SdfReader of readers.py and by the SdfReader of tsunami_ip_utils.py.
C23_StoredOrderReversed ==
    \A reader \in {sdfReader, legacyReader} :
       reader.status = "ok" =>
          \A p \in 1..Len(reader.sdf_data) :
             WellFormed(sdfFile.blocks[reader.sdf_data[p].block])
                => StoredReversed(reader.sdf_data[p])

----------------------------------------------------------------------------
(* Properties of the vectors calculate_E compares (SpecDec) *)

\* the (nuclide, reaction) identities of the profiles get_sensitivity_profiles
\* selects from a file, in the order of their components in the vector (the
\* profiles of these files have one energy group each)
SelectedKeys(file, reaction_type) ==
    FileKeys(SelectSeq(file, LAMBDA m : reaction_type = "all"
                                        \/ m.reaction_type = reaction_type))

\* C24: whenever calculate_E returns an E for a pair, component i of the
\* application vector and component i of the experiment vector belong to
\* the same nuclide, reaction and energy group, for every i.
C24_ComponentsAligned ==
    call.fn = "calculate_E" /\ E.status = "ok"
    => SelectedKeys(appReader.file, call.reaction_type)
          = SelectedKeys(expReader.file, call.reaction_type)

----------------------------------------------------------------------------
(* Properties of the vector builder (SpecVec) *)

\* the number of components that precede profile p in the vector
Offset(sdfs, p) == SumSeq([q \in 1..(p - 1) |-> Len(sdfs[q])])

\* C25: the vector create_sensitivity_vector returns is as long as the
\* profiles together, and the component at group g of profile p (p * G + g
\* for profiles of G groups, counting from 0) has the value and the
\* uncertainty of that group of that profile.
C25_VectorIsConcatenation ==
    sensitivity_vector.status = "ok" =>
       LET sdfs == builderProfiles.list
           vector == sensitivity_vector.vector
       IN /\ Len(vector) = SumSeq([p \in 1..Len(sdfs) |-> Len(sdfs[p])])
          /\ \A p \in 1..Len(sdfs) : \A g \in 1..Len(sdfs[p]) :
                /\ vector[Offset(sdfs, p) + g].n = sdfs[p][g].n
                /\ vector[Offset(sdfs, p) + g].s = sdfs[p][g].s

\* C25 witness: a vector made of two different profiles of two groups each
C25_Witness ==
    /\ sensitivity_vector.status = "ok"
    /\ Len(builderProfiles.list) = 2
    /\ Len(builderProfiles.list[1]) = 2
    /\ Len(builderProfiles.list[2]) = 2
    /\ builderProfiles.list[1] # builderProfiles.list[2]
    /\ Len(sensitivity_vector.vector) = 4

----------------------------------------------------------------------------
(* Properties of the manual propagation (SpecEng) *)

\* sum, product and quotient of fractions in lowest terms, the common
\* factors taken out before the multiplications
FracAdd(x, y) ==
    LET g == GCD(x.den, y.den)
    IN Frac(x.num * (y.den \div g) + y.num * (x.den \div g), (x.den \div g) * y.den)

FracMul(x, y) ==
    IF x.num = 0 \/ y.num = 0 THEN Frac(0, 1)
    ELSE LET g == GCD(x.num, y.den)
             h == GCD(y.num, x.den)
         IN Frac((x.num \div g) * (y.num \div h), (x.den \div h) * (y.den \div g))

FracDiv(x, y) == FracMul(x, [num |-> y.den, den |-> y.num])

RECURSIVE FracSum(_)
FracSum(s) == IF s = <<>> THEN Frac(0, 1) ELSE FracAdd(Head(s), FracSum(Tail(s)))

\* the square of component i of the unit vector handed to the dot product
UnitSq(v, norm_sq, i) == Frac(v[i].n * v[i].n, norm_sq)

\* the square of its uncertainty
UnitSigmaSq(v, i) == Frac(unit_vector_uncertainty_propagation(v, i), ErrDen(v))

\* the variance C26 states for component i of the unit vectors a and b:
\* (a_i*b_i)^2 * ((s_a_i/a_i)^2 + (s_b_i/b_i)^2), and 0 when a_i or b_i is 0
ComponentVariance(i) ==
    LET a2 == UnitSq(ApplicationVector, E.normSq[1], i)
        b2 == UnitSq(ExperimentVector, E.normSq[2], i)
    IN IF ApplicationVector[i].n = 0 \/ ExperimentVector[i].n = 0 THEN Frac(0, 1)
       ELSE FracMul(FracMul(a2, b2),
                    FracAdd(FracDiv(UnitSigmaSq(ApplicationVector, i), a2),
                            FracDiv(UnitSigmaSq(ExperimentVector, i), b2)))

\* the norm the manual branch divides a vector by is zero
ZeroNorm(v, supplied) ==
    IF call.application_norm = NoNorm /\ call.experiment_norm = NoNorm
    THEN NormSq(v) = 0 ELSE supplied = 0

\* C26: in manual mode the variance of E is the sum over the components of
\* (a_i*b_i)^2 * ((s_a_i/a_i)^2 + (s_b_i/b_i)^2), a component with a zero
\* nominal value on either side adding exactly 0 whatever its uncertainties;
\* and the only division by zero of a manual call is the division of a
\* vector by a zero norm.
C26_ManualDotProductVariance ==
    call.fn # "none" /\ call.uncertainties # "automatic" =>
       /\ E.status = "ok" =>
             E.var = FracSum([i \in 1..Len(ApplicationVector) |-> ComponentVariance(i)])
       /\ E.status = "ZeroDivisionError" =>
             \/ ZeroNorm(ApplicationVector, call.application_norm)
             \/ ZeroNorm(ExperimentVector, call.experiment_norm)

\* C26 witness: a manual call whose vectors have a component that is zero in
\* the application and not in the experiment, with an uncertain unit-vector
\* component on both sides there, and a nonzero uncertainty of E
C26_Witness ==
    /\ call.fn # "none" /\ call.uncertainties = "manual"
    /\ E.status = "ok"
    /\ E.var.num # 0
    /\ \E i \in 1..Len(ApplicationVector) :
          /\ ApplicationVector[i].n = 0
          /\ ExperimentVector[i].n # 0
          /\ UnitSigmaSq(ApplicationVector, i).num # 0
          /\ UnitSigmaSq(ExperimentVector, i).num # 0

\* the square of entry (i, j) of the Jacobian C27 states for the vector x:
\* J[i][i] = (|x|^2 - x_i^2)/|x|^3 and J[i][j] = -x_i*x_j/|x|^3
JacobianSq(x, i, j) ==
    LET norm_sq == NormSq(x)
        entry == IF i = j THEN norm_sq - x[i].n * x[i].n ELSE -(x[i].n * x[j].n)
    IN Frac(entry * entry, norm_sq * norm_sq * norm_sq)

\* sum over j of J[i][j]^2 * sigma_j^2
RowVariance(x, i) ==
    FracSum([j \in 1..Len(x) |-> FracMul(JacobianSq(x, i, j), Frac(x[j].s * x[j].s, 1))])

\* C27: for the vectors of a manual call, of nonzero norm, component i of
\* what unit_vector_uncertainty_propagation returns is the square root of
\* the sum over j of J[i][j]^2 * sigma_j^2: every entry of row i is weighted
\* by the variance of the component j it differentiates with respect to.
C27_UnitVectorUncertainty ==
    call.fn # "none" /\ call.uncertainties # "automatic" /\ E.status = "ok" =>
       /\ NormSq(ApplicationVector) # 0 =>
             \A i \in 1..Len(ApplicationVector) :
                UnitSigmaSq(ApplicationVector, i) = RowVariance(ApplicationVector, i)
       /\ NormSq(ExperimentVector) # 0 =>
             \A i \in 1..Len(ExperimentVector) :
                UnitSigmaSq(ExperimentVector, i) = RowVariance(ExperimentVector, i)

\* C27 witness: a vector of two nonzero components of which only the second
\* is uncertain, so that the uncertainty of the first unit-vector component
\* comes from the variance of the second alone
C27_Witness ==
    /\ call.fn # "none" /\ call.uncertainties = "manual" /\ E.status = "ok"
    /\ Len(ApplicationVector) = 2
    /\ ApplicationVector[1].n # 0 /\ ApplicationVector[2].n # 0
    /\ ApplicationVector[1].s = 0 /\ ApplicationVector[2].s # 0
    /\ UnitSigmaSq(ApplicationVector, 1).num # 0
    /\ E.var.num # 0

----------------------------------------------------------------------------
(* Properties of the HDF5 reader (SpecH5) *)

\* the rows of the container with unit == 0
RegionIntegratedRows == {k \in 1..Len(h5File) : h5File[k].unit = 0}

\* no two of them have the same nuclide_id and the same mt
DistinctKeys ==
    \A j, k \in RegionIntegratedRows :
       j # k => \/ h5File[j].nuclide_id # h5File[k].nuclide_id
                \/ h5File[j].mt # h5File[k].mt

\* the entry C28 states for a row: its own keys and its own two rows of
\* values and uncertainties, reversed
OwnEntry(row) ==
    [nuclide_id |-> row.nuclide_id,
     mt |-> row.mt,
     sensitivities |-> [g \in 1..Len(row.profile_values) |->
                          [n |-> row.profile_values[Len(row.profile_values) + 1 - g],
                           s |-> row.profile_sigmas[Len(row.profile_sigmas) + 1 - g]]]]

\* C28: for a container whose rows with unit == 0 have different
\* (nuclide_id, mt) keys, read_region_integrated_h5_sdf returns, and returns
\* exactly the entries of the rows with unit == 0, each under its own keys
\* with its own values and uncertainties reversed, wherever the row sits.
C28_RegionIntegratedEntries ==
    h5Data.status # "none" /\ DistinctKeys =>
       /\ h5Data.status = "ok"
       /\ h5Data.sdf_data = {OwnEntry(h5File[k]) : k \in RegionIntegratedRows}

----------------------------------------------------------------------------
(* Properties of get_sensitivity_profiles (SpecVec) *)

\* the profiles of the region-integrated list in list order, those of one
\* reaction type (all of them for 'all'), in their relative order
InListOrder(sdf_data, reaction_type) ==
    LET kept == SelectSeq(sdf_data, LAMBDA m : reaction_type = "all"
                                               \/ m.reaction_type = reaction_type)
    IN [i \in 1..Len(kept) |-> kept[i].sensitivities]

\* C29: for a reader whose profiles have different (nuclide, reaction)
\* pairs, get_sensitivity_profiles returns the profiles of the requested
\* reaction type in the order of the region-integrated list, before and
\* after convert_to_dict.
C29_SameOrderBeforeAndAfter ==
    builderProfiles.status = "returned" /\ OnePerPair(builderReader.file) =>
       builderProfiles.list = InListOrder(builderReader.file, builderProfiles.reaction_type)

----------------------------------------------------------------------------
(* Properties of the norm arguments (SpecNrm) *)

ExactlyOneNorm ==
    (call.application_norm = NoNorm) # (call.experiment_norm = NoNorm)

====
